---------------------------- MODULE Spec2Model ----------------------------
(***************************************************************************)
(* Model of the rhythm-timing engine of fallas/__main__.py:                *)
(* get_division, beat_stripper, beat_perturber, trim_timings and the       *)
(* body of build_beat's loop over the drums.                               *)
(*                                                                         *)
(* A behaviour is one call.  `entry` names the function that was called:   *)
(* "build_beat" runs the loop body for one drum of the list (an iteration  *)
(* reads nothing another one wrote, so any drum is the first), the four    *)
(* other values are a direct call of one function on arguments drawn from  *)
(* bounded sets.                                                           *)
(*                                                                         *)
(* Floats are modelled as fractions <<numerator, denominator>>.  The draws *)
(* of numpy's random generator are nondeterministic choices.  List indices *)
(* kept in the state (rm_idx, indices_to_perturb) are the 0-based indices  *)
(* of the source; TLA+ sequences are 1-based.                              *)
(***************************************************************************)
EXTENDS Integers, Sequences, FiniteSets

VARIABLES
    entry,              \* the function this behaviour calls
    pc,                 \* position: the next function to run, or an end state
    beat,               \* beat (BEAT)
    n_beats,            \* n_beats (N_BEATS)
    hit,                \* parameters of the current drum (get_base_params)
    phrase_length,      \* build_beat's phrase_length / trim_timings' argument
    timings,            \* the duration list being built
    base,               \* what get_division returned for the current drum
    given,              \* a direct call's timings argument
    arg,                \* the list handed to the function that ran last
    rm_idx,             \* beat_stripper: the set of indices numpy drew
    indices_to_perturb, \* beat_perturber: trigger indices, ascending
    inserted,           \* beat_perturber: <<random_perturb, n_reps>> per trigger
    origin,             \* for each element of timings, where it comes from
    track,              \* the note events appended for the current drum
    calls,              \* number of trim_timings calls made
    err                 \* the exception raised, "none" if none

vars == <<entry, pc, beat, n_beats, hit, phrase_length, timings,
          given, base, arg, rm_idx, indices_to_perturb, inserted, origin, track,
          calls, err>>

-----------------------------------------------------------------------------
(* Bounds *)

MaxBeat == 2
MaxNBeats == 2
MaxOffset == 1
MaxLen == 3
MaxVal == 2
MaxReps == 1
MaxTrims == 2

\* removal proportions, valid ones and ones outside [0,1]
ValidProportions == {<<0, 1>>, <<1, 2>>, <<1, 1>>}
Proportions == ValidProportions \cup {<<-1, 4>>, <<-1, 2>>, <<-1, 1>>, <<3, 2>>}
\* insert probabilities
Probabilities == {<<0, 1>>, <<1, 2>>, <<1, 1>>}
\* the values np.random.random can return, all in [0, 1)
PxGrid == {<<0, 1>>, <<1, 2>>}
Divisions == {-1, 0, 1, 2}
Depths == {0, 1, 2}
Rates == {0, 1}
AnyRates == {-1, 0, 1}

-----------------------------------------------------------------------------
(* Arithmetic *)

Abs(x) == IF x < 0 THEN -x ELSE x

\* int(a / b) for b # 0: Python's true division, truncated toward zero
TruncDiv(a, b) ==
    IF (a >= 0) = (b > 0) THEN Abs(a) \div Abs(b) ELSE -(Abs(a) \div Abs(b))

\* f < g for fractions with positive denominators
Less(f, g) == f[1] * g[2] < g[1] * f[2]

RECURSIVE CumSum(_, _)
\* np.cumsum(s)[i-1]
CumSum(s, i) == IF i = 0 THEN 0 ELSE CumSum(s, i - 1) + s[i]

Sum(s) == CumSum(s, Len(s))

SetMin(S) == CHOOSE x \in S : \A y \in S : x <= y

RECURSIVE Ascending(_)
\* the elements of a finite set of integers in ascending order
Ascending(S) ==
    IF S = {} THEN <<>> ELSE <<SetMin(S)>> \o Ascending(S \ {SetMin(S)})

Range(f) == {f[i] : i \in DOMAIN f}

\* all sequences over S of length lo..hi
SeqsOf(S, lo, hi) == UNION {[1..n -> S] : n \in lo..hi}

-----------------------------------------------------------------------------
(* get_division *)

\* line 101 divides by hit_division, line 102 by hit_length: ZeroDivisionError
GetDivisionRaises(b, n, hit_division) ==
    \/ hit_division = 0
    \/ TruncDiv(b * n, hit_division) = 0

get_division(b, n, hit_division, offset) ==
    LET BEAT_OFFSET == b * offset
        pl == b * n
        hit_length == TruncDiv(pl, hit_division)
        n_hits == TruncDiv(pl, hit_length)
    IN  <<BEAT_OFFSET>> \o [i \in 1..n_hits |-> hit_length]

-----------------------------------------------------------------------------
(* trim_timings *)

\* trim_timings with `del timings[all_to_end+1:]`: the first excess hit stays
trim_keep_excess(pl, t) ==
    LET extra_hits == {i \in 0..(Len(t) - 1) : CumSum(t, i + 1) > pl}
    IN  IF extra_hits # {}
        THEN SubSeq(t, 1, SetMin(extra_hits) + 1)
        ELSE t

\* trim_timings with `del timings[all_to_end]`: only the first excess hit goes
trim_drop_one(pl, t) ==
    LET extra_hits == {i \in 0..(Len(t) - 1) : CumSum(t, i + 1) > pl}
    IN  IF extra_hits # {}
        THEN SubSeq(t, 1, SetMin(extra_hits))
                 \o SubSeq(t, SetMin(extra_hits) + 2, Len(t))
        ELSE t

\* trim_timings with `>=` for `>`: a hit that ends on the phrase's end goes
trim_at_bound(pl, t) ==
    LET extra_hits == {i \in 0..(Len(t) - 1) : CumSum(t, i + 1) >= pl}
    IN  IF extra_hits # {}
        THEN SubSeq(t, 1, SetMin(extra_hits))
        ELSE t

trim_timings(pl, t) ==
    LET extra_hits == {i \in 0..(Len(t) - 1) : CumSum(t, i + 1) > pl}
    IN  IF extra_hits # {}
        THEN SubSeq(t, 1, SetMin(extra_hits))
        ELSE t

-----------------------------------------------------------------------------
(* beat_stripper *)

\* n_to_rm = int(phrase_len * removal_proportion)
n_to_rm(t, removal_proportion) ==
    TruncDiv(Len(t) * removal_proportion[1], removal_proportion[2])

\* randint(0, phrase_len, ...): the last index can be drawn too
StripCandidatesWithLast(phrase_len) == 0..(phrase_len - 1)

\* the values np.random.randint(0, phrase_len-1, ...) can draw
StripCandidates(phrase_len) == 0..(phrase_len - 2)

\* the sets of values an array of n draws, with repetition, can hold
DrawnSets(phrase_len, n) ==
    {S \in SUBSET StripCandidates(phrase_len) :
        /\ Cardinality(S) <= n
        /\ n > 0 => S # {}}

\* lines 145-151, rm the set of values in the array numpy returned
beat_stripper(t, rm) ==
    [i \in 1..Len(t) |->
        IF (i - 1) \notin rm THEN t[i] ELSE t[i] + t[i]]

-----------------------------------------------------------------------------
(* beat_perturber *)

\* lines 170-173, as the list the loop builds
perturbances(b, depth) == [k \in 1..depth |-> TruncDiv(b, k + 1)]

\* Triggers with `<=` for `<`
TriggersAtOrBelow(px_vec, probibility_add) ==
    Ascending({i \in 0..(Len(px_vec) - 1) :
                  ~Less(probibility_add, px_vec[i + 1])})

\* np.argwhere(px_vec < probibility_add).ravel(); px_vec[i+1] is the draw for
\* index i
Triggers(px_vec, probibility_add) ==
    Ascending({i \in 0..(Len(px_vec) - 1) : Less(px_vec[i + 1], probibility_add)})

\* InsertAt with t[idx+1:] for t[idx:]: the copies replace the element
InsertReplacing(t, idx, x, n) ==
    SubSeq(t, 1, idx) \o [j \in 1..n |-> x] \o SubSeq(t, idx + 2, Len(t))

\* line 184: t[0:idx] + [x] * n + t[idx:]
InsertAt(t, idx, x, n) ==
    SubSeq(t, 1, idx) \o [j \in 1..n |-> x] \o SubSeq(t, idx + 1, Len(t))

RECURSIVE PerturbFrom(_, _, _, _, _)
\* the loop of lines 180-184 from its k-th iteration on
PerturbFrom(t, idxs, items, reps, k) ==
    IF k > Len(idxs)
    THEN t
    ELSE PerturbFrom(InsertAt(t, idxs[k], items[k], reps[k]),
                     idxs, items, reps, k + 1)

\* lines 180-186 for trigger indices idxs, where iteration k drew items[k]
\* from the perturbances and the count reps[k] from the Poisson distribution
beat_perturber(t, idxs, items, reps) == PerturbFrom(t, idxs, items, reps, 1)

\* what np.random.poisson(repeater) can return, up to MaxReps
PoissonDraws(repeater) == IF repeater = 0 THEN {0} ELSE 0..MaxReps

-----------------------------------------------------------------------------
(* Initial states *)

\* the drum parameters build_beat reads ('midi' and 'vel' are passed through)
HitParams ==
    [div : Divisions, off : 0..MaxOffset, rem : ValidProportions,
     px_add : Probabilities, depth : Depths, rep : Rates]

NoHit ==
    [div |-> 1, off |-> 0, rem |-> <<0, 1>>, px_add |-> <<0, 1>>,
     depth |-> 0, rep |-> 0]

InitCommon ==
    /\ base = <<>>
    /\ arg = <<>>
    /\ rm_idx = {}
    /\ indices_to_perturb = <<>>
    /\ inserted = <<>>
    /\ origin = <<>>
    /\ track = <<>>
    /\ calls = 0
    /\ err = "none"

\* build_beat(beat, n_beats, drums, save_path), called as in __main__ with
\* the globals BEAT and N_BEATS that get_division reads
InitBuildBeat ==
    /\ entry = "build_beat"
    /\ pc = "get_division"
    /\ beat \in 1..MaxBeat
    /\ n_beats \in 1..MaxNBeats
    /\ hit \in HitParams
    /\ phrase_length = beat * n_beats
    /\ timings = <<>>
    /\ given = <<>>

\* get_division(beat, n_beats, hit_division, offset)
InitGetDivision ==
    /\ entry = "get_division"
    /\ pc = "get_division"
    /\ beat \in 1..MaxBeat
    /\ n_beats \in 1..MaxNBeats
    /\ \E d \in (-2)..(MaxBeat * MaxNBeats + 1), o \in 0..MaxOffset :
          hit = [NoHit EXCEPT !.div = d, !.off = o]
    /\ phrase_length = beat * n_beats
    /\ timings = <<>>
    /\ given = <<>>

\* trim_timings(phrase_length, timings)
InitTrimTimings ==
    /\ entry = "trim_timings"
    /\ pc = "trim_timings"
    /\ beat = 1
    /\ n_beats = 1
    /\ hit = NoHit
    /\ phrase_length \in 0..(MaxBeat * MaxNBeats)
    /\ timings \in SeqsOf((-1)..MaxVal, 0, MaxLen)
    /\ given = timings

\* beat_stripper(timings, removal_proportion)
InitBeatStripper ==
    /\ entry = "beat_stripper"
    /\ pc = "beat_stripper"
    /\ beat = 1
    /\ n_beats = 1
    /\ \E r \in Proportions : hit = [NoHit EXCEPT !.rem = r]
    /\ phrase_length = 1
    /\ timings \in SeqsOf(1..MaxVal, 0, MaxLen)
    /\ given = timings

\* beat_perturber(beat, timings, probibility_add, depth, repeater)
InitBeatPerturber ==
    /\ entry = "beat_perturber"
    /\ pc = "beat_perturber"
    /\ beat \in 1..MaxBeat
    /\ n_beats = 1
    /\ \E p \in Probabilities, d \in Depths, r \in AnyRates :
          hit = [NoHit EXCEPT !.px_add = p, !.depth = d, !.rep = r]
    /\ phrase_length = beat
    /\ timings \in SeqsOf(1..MaxVal, 0, MaxLen)
    /\ given = timings

Init ==
    /\ InitCommon
    /\ \/ InitBuildBeat
       \/ InitGetDivision
       \/ InitTrimTimings
       \/ InitBeatStripper
       \/ InitBeatPerturber

-----------------------------------------------------------------------------
(* Actions *)

\* where control goes when a function returns
Return(next) == IF entry = "build_beat" THEN next ELSE "returned"

\* an exception leaves the function, and build_beat, at once
Raise(e) ==
    /\ pc' = "failed"
    /\ err' = e

\* lines 97-108, called at lines 211-214
GetDivision ==
    /\ pc = "get_division"
    /\ IF GetDivisionRaises(beat, n_beats, hit.div)
       THEN /\ Raise("ZeroDivisionError")
            /\ UNCHANGED <<timings, base>>
       ELSE /\ timings' = get_division(beat, n_beats, hit.div, hit.off)
            /\ base' = timings'
            /\ pc' = Return("beat_stripper")
            /\ UNCHANGED err
    /\ UNCHANGED <<entry, beat, n_beats, hit, phrase_length, given, arg,
                   rm_idx, indices_to_perturb, inserted, origin, track, calls>>

\* lines 141-151, called at line 217
BeatStripper ==
    /\ pc = "beat_stripper"
    /\ arg' = timings
    /\ LET phrase_len == Len(timings)
           n == n_to_rm(timings, hit.rem)
       IN  \/ \* randint raises ValueError: a negative size, or low >= high
              \* (which numpy versions differ on when the size is 0)
              /\ n < 0 \/ StripCandidates(phrase_len) = {}
              /\ Raise("ValueError")
              /\ UNCHANGED <<timings, rm_idx>>
           \/ /\ n >= 0
              /\ n = 0 \/ StripCandidates(phrase_len) # {}
              /\ \E rm \in DrawnSets(phrase_len, n) :
                    /\ rm_idx' = rm
                    /\ timings' = beat_stripper(timings, rm)
              /\ pc' = Return("beat_perturber")
              /\ UNCHANGED err
    /\ UNCHANGED <<entry, beat, n_beats, hit, phrase_length, given, base,
                   indices_to_perturb, inserted, origin, track, calls>>

\* lines 170-186, called at lines 220-223
BeatPerturber ==
    /\ pc = "beat_perturber"
    /\ arg' = timings
    /\ \/ \* np.random.random(-1) raises ValueError
          /\ Len(timings) = 0
          /\ Raise("ValueError")
          /\ UNCHANGED <<timings, indices_to_perturb, inserted, origin>>
       \/ /\ Len(timings) > 0
          /\ \E px_vec \in [1..(Len(timings) - 1) -> PxGrid] :
                LET idxs == Triggers(px_vec, hit.px_add)
                    P == Range(perturbances(beat, hit.depth))
                IN  /\ indices_to_perturb' = idxs
                    /\ \/ \* the first iteration raises ValueError:
                          \* np.random.choice of an empty list, or
                          \* np.random.poisson of a negative rate
                          /\ idxs # <<>>
                          /\ P = {} \/ hit.rep < 0
                          /\ Raise("ValueError")
                          /\ UNCHANGED <<timings, inserted, origin>>
                       \/ /\ idxs = <<>> \/ (P # {} /\ hit.rep >= 0)
                          /\ \E items \in [1..Len(idxs) -> P],
                                reps \in [1..Len(idxs) -> PoissonDraws(hit.rep)] :
                                /\ timings' =
                                      beat_perturber(timings, idxs, items, reps)
                                /\ inserted' =
                                      [k \in 1..Len(idxs) |-> <<items[k], reps[k]>>]
                                /\ origin' =
                                      beat_perturber(
                                          [i \in 1..Len(timings) |-> i - 1],
                                          idxs,
                                          [k \in 1..Len(idxs) |-> -(idxs[k] + 1)],
                                          reps)
                          /\ pc' = Return("trim_timings")
                          /\ UNCHANGED err
    /\ UNCHANGED <<entry, beat, n_beats, hit, phrase_length, given, base,
                   rm_idx, track, calls>>

\* lines 121-127, called at line 225; a direct call is made MaxTrims times,
\* each on the list the call before returned
TrimTimings ==
    /\ pc = "trim_timings"
    /\ arg' = timings
    /\ timings' = trim_timings(phrase_length, timings)
    /\ calls' = calls + 1
    /\ pc' = IF entry = "build_beat" THEN "emit"
             ELSE IF calls + 1 < MaxTrims THEN "trim_timings"
             ELSE "returned"
    /\ UNCHANGED <<entry, beat, n_beats, hit, phrase_length, given, base,
                   rm_idx, indices_to_perturb, inserted, origin, track, err>>

\* lines 230-240: a note_on with the duration, then a note_off, per duration
Emit ==
    /\ pc = "emit"
    /\ track' = [i \in 1..(2 * Len(timings)) |->
                    IF i % 2 = 1
                    THEN [type |-> "note_on", time |-> timings[(i + 1) \div 2]]
                    ELSE [type |-> "note_off", time |-> 0]]
    /\ pc' = "save"
    /\ UNCHANGED <<entry, beat, n_beats, hit, phrase_length, given,
                   timings, base, arg, rm_idx, indices_to_perturb, inserted,
                   origin, calls, err>>

\* line 242, reached when no drum raised: mid.save(save_path)
Save ==
    /\ pc = "save"
    /\ pc' = "saved"
    /\ UNCHANGED <<entry, beat, n_beats, hit, phrase_length, given,
                   timings, base, arg, rm_idx, indices_to_perturb, inserted,
                   origin, track, calls, err>>

Next ==
    \/ GetDivision
    \/ BeatStripper
    \/ BeatPerturber
    \/ TrimTimings
    \/ Emit
    \/ Save

Spec == Init /\ [][Next]_vars

TypeOK ==
    /\ entry \in {"build_beat", "get_division", "trim_timings",
                  "beat_stripper", "beat_perturber"}
    /\ pc \in {"get_division", "beat_stripper", "beat_perturber",
               "trim_timings", "emit", "save", "saved", "returned", "failed"}
    /\ err \in {"none", "ZeroDivisionError", "ValueError"}
    /\ (pc = "failed") = (err # "none")
    /\ \A i \in 1..Len(timings) : timings[i] \in Int

-----------------------------------------------------------------------------
(* Definitions the claims are stated with *)

\* floor(a / b) for b # 0
FloorDiv(a, b) ==
    LET q == TruncDiv(a, b)
    IN  IF q * b # a /\ ((a < 0) # (b < 0)) THEN q - 1 ELSE q

\* f is a fraction in [0, 1]
InUnitInterval(f) == 0 <= f[1] /\ f[1] <= f[2]

RECURSIVE SubseqFrom(_, _, _, _)
\* a[i..] can be read off b[j..] in order, skipping elements of b
SubseqFrom(a, i, b, j) ==
    IF i > Len(a) THEN TRUE
    ELSE IF j > Len(b) THEN FALSE
    ELSE IF a[i] = b[j] THEN SubseqFrom(a, i + 1, b, j + 1)
    ELSE SubseqFrom(a, i, b, j + 1)

IsSubsequence(a, b) == SubseqFrom(a, 1, b, 1)

IsPrefix(a, b) == Len(a) <= Len(b) /\ a = SubSeq(b, 1, Len(a))

RECURSIVE TotalTime(_, _)
\* the sum of the time fields of the first i events of a track
TotalTime(tr, i) == IF i = 0 THEN 0 ELSE TotalTime(tr, i - 1) + tr[i].time

\* the position in s of the value v, 0 if it does not occur
PositionOf(s, v) ==
    IF \E i \in 1..Len(s) : s[i] = v
    THEN CHOOSE i \in 1..Len(s) : s[i] = v
    ELSE 0

Finalized == entry = "build_beat" /\ pc \in {"emit", "save", "saved"}

Returned(f) == entry = f /\ pc = "returned"

-----------------------------------------------------------------------------
(* Claims *)

\* C1: the durations build_beat finalizes for a drum (what trim_timings
\* returned, and the note events emitted from it) sum to at most
\* phrase_length = beat * n_beats, whatever the parameters and the random
\* draws; and a direct call trim_timings(L, s) with L >= 0 returns a list
\* whose sum is at most L.
C1_SumWithinPhrase ==
    /\ Finalized => Sum(timings) <= phrase_length
    /\ (entry = "build_beat" /\ pc \in {"save", "saved"}) =>
          /\ Len(track) = 2 * Len(timings)
          /\ TotalTime(track, Len(track)) <= beat * n_beats
    /\ (entry = "trim_timings" /\ calls >= 1) => Sum(timings) <= phrase_length

\* a drum with doubled and inserted hits whose list trim_timings cut, to
\* exactly the phrase length, and whose events were saved
C1_Witness ==
    /\ entry = "build_beat"
    /\ pc = "saved"
    /\ rm_idx # {}
    /\ \E k \in 1..Len(inserted) : inserted[k][2] >= 1
    /\ Len(timings) < Len(arg)
    /\ Sum(timings) = phrase_length
    /\ Len(timings) >= 2

\* C2: trim_timings is idempotent: called on a list it returned, with the
\* same bound, it returns that list.
C2_TrimIdempotent ==
    (entry = "trim_timings" /\ calls >= 2) => timings = arg

\* two calls made, the first of which dropped a tail and kept something
C2_Witness ==
    /\ entry = "trim_timings"
    /\ calls = 2
    /\ Len(timings) >= 1
    /\ Len(timings) + 2 <= Len(given)

C4_DepthZeroUnchanged ==
    (/\ entry = "beat_perturber"
     /\ hit.depth = 0
     /\ hit.rep >= 0
     /\ Len(given) >= 1
     /\ pc # "beat_perturber") =>
        /\ pc = "returned"
        /\ timings = given

\* C5: for a drum with removal proportion 0 and insert probability 0 and a
\* subdivision get_division accepts, build_beat does not fail and finalizes
\* trim_timings(phrase_length, get_division(beat, n_beats, div, off)),
\* whatever the depth, the rate and the draws.
C5_DegeneratesToDivision ==
    (/\ entry = "build_beat"
     /\ hit.rem = <<0, 1>>
     /\ hit.px_add = <<0, 1>>
     /\ hit.div >= 1
     /\ ~GetDivisionRaises(beat, n_beats, hit.div)) =>
        /\ pc # "failed"
        /\ Finalized =>
              timings = trim_timings(beat * n_beats,
                            get_division(beat, n_beats, hit.div, hit.off))

\* such a drum with depth 2 and rate 1 whose division was cut by trim_timings
C5_Witness ==
    /\ entry = "build_beat"
    /\ pc = "saved"
    /\ hit.rem = <<0, 1>>
    /\ hit.px_add = <<0, 1>>
    /\ hit.depth = 2
    /\ hit.rep = 1
    /\ Len(base) >= 3
    /\ Len(timings) < Len(base)
    /\ Len(timings) >= 1

\* C6: get_division fails, and returns no list, whenever
\* floor(phrase_length / hit_division) <= 0.
C6_CoarseDivisionFails ==
    (/\ entry = "get_division"
     /\ hit.div # 0
     /\ FloorDiv(beat * n_beats, hit.div) <= 0
     /\ pc # "get_division") =>
        /\ pc = "failed"
        /\ timings = <<>>

\* C7: beat_stripper fails, and returns no list, for every removal
\* proportion outside [0,1] (stated for lists of at least two elements).
C7_ProportionOutOfRangeFails ==
    (/\ entry = "beat_stripper"
     /\ ~InUnitInterval(hit.rem)
     /\ Len(given) >= 2
     /\ pc # "beat_stripper") =>
        pc = "failed"

\* C8: in what beat_perturber returns, the copies a trigger index k inserted
\* stand immediately before the element that stood at index k of the input,
\* also when triggers with smaller indices inserted elements before.
C8_InsertedBeforeOriginal ==
    Returned("beat_perturber") =>
        \A k \in 1..Len(indices_to_perturb) :
            LET p == PositionOf(origin, indices_to_perturb[k])
            IN  \A j \in 1..inserted[k][2] :
                    /\ p - j >= 1
                    /\ origin[p - j] = -(indices_to_perturb[k] + 1)

\* C9: trim_timings(L, s) returns the prefix of s that ends just before the
\* first index whose cumulative sum is > L (later elements are dropped
\* whatever their cumulative sums), and s itself when there is none; an
\* element whose cumulative sum is L is kept.
C9_TrimIsLongestFittingPrefix ==
    (entry = "trim_timings" /\ calls >= 1) =>
        /\ IsPrefix(timings, arg)
        /\ \A i \in 1..Len(timings) : CumSum(arg, i) <= phrase_length
        /\ Len(timings) < Len(arg) =>
              CumSum(arg, Len(timings) + 1) > phrase_length

\* the kept prefix sums to exactly L, the next element exceeds L, and the
\* whole input sums to at most L again
C9_Witness ==
    /\ entry = "trim_timings"
    /\ calls = 1
    /\ Len(timings) >= 1
    /\ Sum(timings) = phrase_length
    /\ Len(arg) >= Len(timings) + 2
    /\ Sum(arg) <= phrase_length

\* C10: for a non-empty input and depth >= 1, what beat_perturber returns
\* holds the input's elements as a subsequence in their order, is at least
\* as long as the input, and ends with the input's last element.
C10_PerturberKeepsInput ==
    (Returned("beat_perturber") /\ Len(given) >= 1 /\ hit.depth >= 1) =>
        /\ IsSubsequence(given, timings)
        /\ Len(timings) >= Len(given)
        /\ timings[Len(timings)] = given[Len(given)]

\* two triggers that both inserted
C10_Witness ==
    /\ Returned("beat_perturber")
    /\ hit.depth >= 1
    /\ Len(indices_to_perturb) >= 2
    /\ \A k \in 1..Len(inserted) : inserted[k][2] >= 1
    /\ Len(timings) >= Len(given) + 2

=============================================================================
